---- MODULE Spec2Model ----
(***************************************************************************)
(* A model of the request admission, scheduling and reliability layer of   *)
(* chkAI-eval-qa:                                                          *)
(*   RateLimiter            src/lib/evaluation-queue.ts (lib/rate-limiter) *)
(*   PriorityRequestQueue   src/lib/request-queue.ts                       *)
(*   callGeminiAPI          src/lib/gemini-client.ts                       *)
(*   withRateLimit          src/unnamed/part_001 (lib/api-middleware.ts)   *)
(*   RetryHandler           src/unnamed/part_003 (lib/retry-utils.ts)      *)
(*   AsyncEvaluationQueue   src/lib/evaluation-queue.ts                    *)
(* Time is in milliseconds, as Date.now() gives it; `now` is the clock of  *)
(* the single event loop and never runs backwards.                         *)
(***************************************************************************)
EXTENDS Integers, Sequences, FiniteSets, TLC

VARIABLES
    now,                \* Date.now()
    \* ---- RateLimiter instances (userRateLimiter, geminiRateLimiter)
    options,            \* inst -> [interval, uniqueTokenPerInterval]
    cache,              \* inst -> the LRUCache: entries from least to most recently used
    rlLog,              \* history of checkLimit calls: [inst, id, t, ok]
    \* ---- PriorityRequestQueue (geminiRequestQueue) and callGeminiAPI
    queue,              \* QueuedRequest[]: [rid, id, priority, timestamp]
    processing,         \* Set<string> of request ids
    currentConcurrent,
    maxConcurrent,
    inflight,           \* the requests whose operation has been called and has not settled
    timers,             \* pending setTimeout(() => this.process(), 100) callbacks
    enqueued,           \* the number of enqueue calls so far; the n-th call is request n
    settled,            \* rid -> how often the promise enqueue returned was settled
    lastStart,          \* the request this step started and the queue it left behind
    lastSettle,         \* the settlement this step made: [rid, outcome, via]
    providerCalls,      \* times at which a call to the provider was started
    \* ---- RetryHandler.execute(fn, onRetry)
    retryOptions,       \* this.options of the RetryHandler
    onRetryGiven,       \* whether execute was passed an onRetry callback
    retryPc,            \* "call" | "wait" | "resolved" | "rejected"
    attempt,            \* the loop variable of execute
    lastError,
    thrown,             \* the error execute rejected with
    calls,              \* the outcome of every call of fn: Ok or the error it threw
    trace,              \* what execute did: calls of fn, onRetry callbacks, waits
    \* ---- AsyncEvaluationQueue and the EvaluationJob collection
    jobs,               \* the stored EvaluationJob documents, by jobId
    isProcessing,
    jobProcessing,      \* AsyncEvaluationQueue.processing: Set<string> of jobIds
    drainPc,            \* where the running processQueue call is suspended
    pendingJobs,        \* the documents the find of the running drain returned
    pos,                \* the index in pendingJobs of the job the loop is at
    job,                \* the document processJob is working on
    statusLog,          \* jobId -> the statuses saved for the job, in order
    runs,               \* jobId -> the outcome of every run of its unit of work
    storeErrors,        \* jobId -> how many store writes of the job's runs failed
    subjectUpdates,     \* jobId -> how often updateChecklistItem succeeded for it
    notified,           \* jobId -> how often notifyFailure was called for it
    \* ---- AlertService and SlackNotifier
    alertsEnabled,      \* process.env.ALERTS_ENABLED === 'true'
    webhookUrl,         \* whether SLACK_WEBHOOK_URL is set
    alertHistory,       \* alertKey -> the time last stored; 0 when the key is missing
    checks,             \* invocation -> where that checkAndAlert call is suspended
    lastCheck,          \* invocation -> how its last finished checkAndAlert call ended
    sends,              \* the finished calls of slackNotifier.sendAlert, in order
    \* ---- MetricsCollector
    metrics,            \* this.metrics: APIMetrics[]
    recorded,           \* the number of record calls so far; the n-th records metric n
    flushes             \* the record calls that called flushToDatabase

rlVars == <<options, cache, rlLog>>
pqVars == <<queue, processing, currentConcurrent, maxConcurrent, inflight, timers,
            enqueued, settled, lastStart, lastSettle, providerCalls>>
rtVars == <<retryOptions, onRetryGiven, retryPc, attempt, lastError, thrown, calls, trace>>
jobVars == <<jobs, isProcessing, jobProcessing, drainPc, pendingJobs, pos, job,
             statusLog, runs, storeErrors, subjectUpdates, notified>>
alertVars == <<alertsEnabled, webhookUrl, alertHistory, checks, lastCheck, sends>>
metricVars == <<metrics, recorded, flushes>>
vars == <<now, rlVars, pqVars, rtVars, jobVars, alertVars, metricVars>>

\* ------------------------------------------------------------------ helpers

Min(a, b) == IF a < b THEN a ELSE b

RECURSIVE Pow(_, _)
Pow(b, e) == IF e = 0 THEN 1 ELSE b * Pow(b, e - 1)

\* ------------------------------------------------------------------ clock

\* the steps by which the clock is seen to advance between two events
ClockSteps == {500, 600}

MaxClock == 1200

Tick ==
    /\ \E d \in ClockSteps :
        /\ now + d <= MaxClock
        /\ now' = now + d

\* the clock as the request queue sees it: two enqueue calls fall into the same
\* millisecond or into different ones
MaxQueueClock == 1

QueueTick ==
    /\ now < MaxQueueClock
    /\ now' = now + 1

\* ------------------------------------------------------------------ RateLimiter

\* the number of identifiers one LRUCache tracks (max: 500 in the constructor),
\* scaled down so that more identifiers than the cache holds can be exercised
CacheMax == 2

Identifiers == 1..(CacheMax + 1)

Instances == {"user", "gemini"}

MaxCalls == 4

\* the options the two exported limiters can be constructed with
\* (interval is 60 * 1000 in the exports; the per-interval count comes from
\* GEMINI_RPM_LIMIT / USER_RPM_LIMIT); the values are those of scenario A
RateLimitOptions ==
    {[interval |-> 1000, uniqueTokenPerInterval |-> n] : n \in 1..2}

\* lru-cache: an entry is stale once it is older than its ttl (ttl: options.interval)
LruIsStale(inst, e, t) == t - e.start > options[inst].interval

LruIndex(c, key) ==
    LET hits == {i \in 1..Len(c) : c[i].key = key}
    IN  IF hits = {} THEN 0 ELSE CHOOSE i \in hits : TRUE

LruWithout(c, i) == SubSeq(c, 1, i - 1) \o SubSeq(c, i + 1, Len(c))

\* LRUCache.get: a stale entry is deleted and undefined is returned; a live
\* entry becomes the most recently used one.  Returns [cache, value].
LruGet(inst, c, key, t) ==
    LET i == LruIndex(c, key)
    IN  IF i = 0 THEN [cache |-> c, value |-> <<>>]
        ELSE IF LruIsStale(inst, c[i], t)
             THEN [cache |-> LruWithout(c, i), value |-> <<>>]
             ELSE [cache |-> Append(LruWithout(c, i), c[i]), value |-> c[i].value]

\* LRUCache.set: an existing key is overwritten and becomes the most recently used
\* (its ttl restarts); a new key evicts the least recently used entry when the
\* cache is full.
LruSet(c, key, value, t) ==
    LET i == LruIndex(c, key)
        e == [key |-> key, value |-> value, start |-> t]
    IN  IF i # 0 THEN Append(LruWithout(c, i), e)
        ELSE IF Len(c) >= CacheMax THEN Append(Tail(c), e)
        ELSE Append(c, e)

\* timestamps.filter((ts) => now - ts < this.options.interval)
ValidTimestampsNoPrune(inst, timestamps, t) == timestamps

ValidTimestamps(inst, timestamps, t) ==
    SelectSeq(timestamps, LAMBDA ts : t - ts < options[inst].interval)

\* RateLimiter.checkLimit on cache c at time t: the cache it leaves and its answer
checkLimit(inst, c, identifier, t) ==
    LET got == LruGet(inst, c, identifier, t)
        validTimestamps == ValidTimestamps(inst, got.value, t)
    IN  IF Len(validTimestamps) >= options[inst].uniqueTokenPerInterval
        THEN [cache |-> got.cache, ok |-> FALSE]
        ELSE [cache |-> LruSet(got.cache, identifier, Append(validTimestamps, t), t),
              ok |-> TRUE]

LogEntry(inst, identifier, ok) ==
    [inst |-> inst, id |-> identifier, t |-> now, ok |-> ok]

\* a caller calls checkLimit(identifier)
CheckLimit(inst, identifier) ==
    LET r == checkLimit(inst, cache[inst], identifier, now)
    IN  /\ Len(rlLog) < MaxCalls
        /\ cache' = [cache EXCEPT ![inst] = r.cache]
        /\ rlLog' = Append(rlLog, LogEntry(inst, identifier, r.ok))
        /\ UNCHANGED <<now, options>>

\* RateLimiter.getRemainingRequests and RateLimiter.getStats: both read through
\* this.cache.get(identifier)
getStats(inst, c, identifier, t) == LruGet(inst, c, identifier, t).cache

GetStats(inst, identifier) ==
    /\ cache' = [cache EXCEPT ![inst] = getStats(inst, cache[inst], identifier, now)]
    /\ UNCHANGED <<now, options, rlLog>>

\* the identifier the global limiter is asked about: checkLimit('global')
Global == 0

\* withRateLimit (RATE_LIMIT_ENABLED not 'false'): the per-user check, then the
\* global check, each followed by getStats when it denies; then the wrapped handler
WithRateLimit(identifier) ==
    LET user == checkLimit("user", cache["user"], identifier, now)
        api == checkLimit("gemini", cache["gemini"], Global, now)
    IN  /\ Len(rlLog) + 2 <= MaxCalls
        /\ IF ~user.ok
           THEN /\ cache' = [cache EXCEPT !["user"] =
                        getStats("user", user.cache, identifier, now)]
                /\ rlLog' = Append(rlLog, LogEntry("user", identifier, FALSE))
           ELSE /\ cache' = [cache EXCEPT
                        !["user"] = user.cache,
                        !["gemini"] = IF api.ok THEN api.cache
                                      ELSE getStats("gemini", api.cache, Global, now)]
                /\ rlLog' = rlLog \o <<LogEntry("user", identifier, TRUE),
                                       LogEntry("gemini", Global, api.ok)>>
        /\ UNCHANGED <<now, options>>

RLInit ==
    /\ options \in {[inst \in Instances |-> o] : o \in RateLimitOptions}
    /\ cache = [inst \in Instances |-> <<>>]
    /\ rlLog = <<>>

\* ------------------------------------------------------------------ PriorityRequestQueue

Priorities == {"high", "medium", "low"}

\* const priorityOrder = { high: 3, medium: 2, low: 1 }
priorityOrder(p) == CASE p = "high" -> 3 [] p = "medium" -> 2 [] p = "low" -> 1

\* the ids callers of enqueue pass in (two callers may pass the same one)
RequestIds == {1, 2}

\* the values the constructor's maxConcurrent is tried with (MAX_CONCURRENT_REQUESTS)
ConcurrencyLimits == {1, 2}

MaxRequests == 4

NoRequest == [rid |-> 0, id |-> 0, priority |-> "low", timestamp |-> 0]

NoStart == [request |-> NoRequest, rest |-> <<>>]

NoSettle == [rid |-> 0, outcome |-> "none", via |-> "none"]

\* PriorityRequestQueue.insertByPriority: the index the loop stops at, from 1
InsertIndexAtEnd(q, request) == Len(q) + 1

\* the loop with <= in the place of < in the comparison of the timestamps
InsertIndexTieFirst(q, request) ==
    LET stops == {i \in 1..Len(q) :
                    \/ priorityOrder(request.priority) > priorityOrder(q[i].priority)
                    \/ /\ priorityOrder(request.priority) = priorityOrder(q[i].priority)
                       /\ request.timestamp <= q[i].timestamp}
    IN  IF stops # {}
        THEN CHOOSE i \in stops : \A j \in stops : i <= j
        ELSE Len(q) + 1

InsertIndex(q, request) ==
    LET stops == {i \in 1..Len(q) :
                    \/ priorityOrder(request.priority) > priorityOrder(q[i].priority)
                    \/ /\ priorityOrder(request.priority) = priorityOrder(q[i].priority)
                       /\ request.timestamp < q[i].timestamp}
    IN  IF stops # {}
        THEN CHOOSE i \in stops : \A j \in stops : i <= j
        ELSE Len(q) + 1

\* this.queue.splice(insertIndex, 0, request)
insertByPriority(q, request) ==
    LET i == InsertIndex(q, request)
    IN  SubSeq(q, 1, i - 1) \o <<request>> \o SubSeq(q, i, Len(q))

\* PriorityRequestQueue.process, up to its await: S holds the fields it changes.
\* A head whose id is being processed is shifted off and process() is called again;
\* otherwise the head is marked, counted and its operation is called.
RECURSIVE process(_)
processCapOffByOne(S) ==
    IF S.currentConcurrent > maxConcurrent THEN S
    ELSE IF S.queue = <<>> THEN S
    ELSE LET nextRequest == Head(S.queue)
             rest == Tail(S.queue)
         IN  IF nextRequest.id \in S.processing
             THEN process([S EXCEPT !.queue = rest])
             ELSE [S EXCEPT !.queue = rest,
                            !.processing = @ \cup {nextRequest.id},
                            !.currentConcurrent = @ + 1,
                            !.inflight = @ \cup {nextRequest},
                            !.lastStart = [request |-> nextRequest, rest |-> rest],
                            !.providerCalls = Append(@, now)]

process(S) ==
    IF S.currentConcurrent >= maxConcurrent THEN S
    ELSE IF S.queue = <<>> THEN S
    ELSE LET nextRequest == Head(S.queue)
             rest == Tail(S.queue)
         IN  IF nextRequest.id \in S.processing
             THEN process([S EXCEPT !.queue = rest])
             ELSE [S EXCEPT !.queue = rest,
                            !.processing = @ \cup {nextRequest.id},
                            !.currentConcurrent = @ + 1,
                            !.inflight = @ \cup {nextRequest},
                            !.lastStart = [request |-> nextRequest, rest |-> rest],
                            !.providerCalls = Append(@, now)]

PQState ==
    [queue |-> queue, processing |-> processing,
     currentConcurrent |-> currentConcurrent, inflight |-> inflight,
     lastStart |-> NoStart, providerCalls |-> providerCalls]

SetPQState(S) ==
    /\ queue' = S.queue
    /\ processing' = S.processing
    /\ currentConcurrent' = S.currentConcurrent
    /\ inflight' = S.inflight
    /\ lastStart' = S.lastStart
    /\ providerCalls' = S.providerCalls

\* PriorityRequestQueue.enqueue: insertByPriority, then process()
enqueue(id, priority) ==
    LET queuedRequest == [rid |-> enqueued + 1, id |-> id, priority |-> priority,
                          timestamp |-> now]
    IN  /\ enqueued < MaxRequests
        /\ enqueued' = enqueued + 1
        /\ SetPQState(process([PQState EXCEPT
                !.queue = insertByPriority(queue, queuedRequest)]))
        /\ lastSettle' = NoSettle
        /\ UNCHANGED <<now, maxConcurrent, timers, settled>>

Enqueue == \E id \in RequestIds, priority \in Priorities : enqueue(id, priority)

\* try { resolve(await request()) } catch (error) { reject(error) }
Settlement(rid, outcome) ==
    [rid |-> rid, outcome |-> outcome,
     via |-> IF outcome = "result" THEN "resolve" ELSE "reject"]

\* the operation of an in-flight request settles: the promise enqueue returned is
\* resolved or rejected, then the finally block runs
Complete ==
    \E request \in inflight, outcome \in {"result", "error"} :
        /\ settled' = [settled EXCEPT ![request.rid] = @ + 1]
        /\ lastSettle' = Settlement(request.rid, outcome)
        /\ processing' = processing \ {request.id}
        /\ currentConcurrent' = currentConcurrent - 1
        /\ inflight' = inflight \ {request}
        /\ timers' = timers + 1
        /\ lastStart' = NoStart
        /\ UNCHANGED <<now, maxConcurrent, queue, enqueued, providerCalls>>

\* setTimeout(() => this.process(), 100) fires
TimerFire ==
    /\ timers > 0
    /\ timers' = timers - 1
    /\ SetPQState(process(PQState))
    /\ lastSettle' = NoSettle
    /\ UNCHANGED <<now, maxConcurrent, enqueued, settled>>

\* PriorityRequestQueue.clear(): the operations in flight are not touched
Clear ==
    /\ queue' = <<>>
    /\ processing' = {}
    /\ currentConcurrent' = 0
    /\ lastStart' = NoStart
    /\ lastSettle' = NoSettle
    /\ UNCHANGED <<now, maxConcurrent, inflight, timers, enqueued, settled, providerCalls>>

PQInit ==
    /\ queue = <<>>
    /\ processing = {}
    /\ currentConcurrent = 0
    /\ maxConcurrent \in ConcurrencyLimits
    /\ inflight = {}
    /\ timers = 0
    /\ enqueued = 0
    /\ settled = [rid \in 1..MaxRequests |-> 0]
    /\ lastStart = NoStart
    /\ lastSettle = NoSettle
    /\ providerCalls = <<>>

\* ------------------------------------------------------------------ callGeminiAPI

\* const requestId = crypto.randomUUID(): an id no other request carries
RandomUUID(n) == 1000 + n

\* callGeminiAPI (GEMINI_API_KEY set): geminiRequestQueue.enqueue(requestId, fetch, priority);
\* the operation is the fetch of the provider's generateContent endpoint
MaxProviderCalls == 3

CallGeminiAPI ==
    /\ enqueued < MaxProviderCalls
    /\ \E priority \in Priorities : enqueue(RandomUUID(enqueued + 1), priority)

\* ------------------------------------------------------------------ RetryHandler

\* retryableErrors: [429, 500, 502, 503, 504]
retryableErrors == {429, 500, 502, 503, 504}

\* the largest maxRetries a handler is constructed with
MaxMaxRetries == 4

\* the options handlers are constructed with: the constructor's defaults
\* (3, 1000, 10000, 2), the exported retryHandler (3, 2000, 10000, 2), and other
\* values of maxRetries, which the constructor accepts
RetryOptions ==
    {[maxRetries |-> m, initialDelay |-> d, maxDelay |-> 10000, backoffMultiplier |-> 2] :
        m \in 0..MaxMaxRetries, d \in {1000, 2000}}

exportedRetryHandler ==
    [maxRetries |-> 3, initialDelay |-> 2000, maxDelay |-> 10000, backoffMultiplier |-> 2]

\* what fn can throw: error.response.status (0: no response or no status) and
\* error.code ("": none)
Errors ==
    {[status |-> st, code |-> c] :
        st \in {0, 400, 503},
        c \in {"", "ECONNABORTED", "ETIMEDOUT", "ECONNRESET"}}

NoError == [status |-> 0, code |-> "none"]

\* the entry of `calls` for a call of fn that resolved
Ok == [status |-> 200, code |-> ""]

\* RetryHandler.isRetryable
isRetryableCodeFirst(error) ==
    \/ error.code = "ECONNABORTED"
    \/ error.code = "ETIMEDOUT"
    \/ error.status \in retryableErrors

isRetryable(error) ==
    IF error.status # 0
    THEN error.status \in retryableErrors
    ELSE IF error.code = "ECONNABORTED" \/ error.code = "ETIMEDOUT"
         THEN TRUE
         ELSE FALSE

\* Math.min(initialDelay * Math.pow(backoffMultiplier, attempt), maxDelay)
delayFromNextAttempt(n) ==
    Min(retryOptions.initialDelay * Pow(retryOptions.backoffMultiplier, n + 1),
        retryOptions.maxDelay)

delay(n) ==
    Min(retryOptions.initialDelay * Pow(retryOptions.backoffMultiplier, n),
        retryOptions.maxDelay)

\* the last attempt: if (attempt >= this.options.maxRetries) break
isLastAttemptOneLate(n) == n > retryOptions.maxRetries

isLastAttempt(n) == n >= retryOptions.maxRetries

\* the catch block of execute for a retryable error that is not the last attempt:
\* the onRetry callback, then the wait
retrySteps(n) ==
    (IF onRetryGiven THEN <<[ev |-> "onRetry", n |-> n + 1]>> ELSE <<>>)
        \o <<[ev |-> "wait", n |-> delay(n)]>>

\* one pass of the loop of execute: fn is called and resolves
CallSucceeds ==
    /\ retryPc = "call"
    /\ calls' = Append(calls, Ok)
    /\ trace' = Append(trace, [ev |-> "call", n |-> attempt])
    /\ retryPc' = "resolved"
    /\ UNCHANGED <<now, retryOptions, onRetryGiven, attempt, lastError, thrown>>

\* one pass of the loop of execute: fn is called and throws error
CallFailsWith(error) ==
        /\ retryPc = "call"
        /\ calls' = Append(calls, error)
        /\ lastError' = error
        /\ IF ~isRetryable(error)
           THEN /\ thrown' = error
                /\ retryPc' = "rejected"
                /\ trace' = Append(trace, [ev |-> "call", n |-> attempt])
           ELSE IF isLastAttempt(attempt)
           THEN /\ thrown' = lastError'
                /\ retryPc' = "rejected"
                /\ trace' = Append(trace, [ev |-> "call", n |-> attempt])
           ELSE /\ thrown' = thrown
                /\ retryPc' = "wait"
                /\ trace' = Append(trace, [ev |-> "call", n |-> attempt])
                                \o retrySteps(attempt)
        /\ UNCHANGED <<now, retryOptions, onRetryGiven, attempt>>

CallFails == \E error \in Errors : CallFailsWith(error)

\* every error.response.status from 400 to 599 (0: none) with every error.code
HttpErrors ==
    {[status |-> st, code |-> c] :
        st \in {0} \cup 400..599,
        c \in {"", "ECONNABORTED", "ETIMEDOUT", "ECONNRESET"}}

\* the first call of fn throws any of them
FirstCallFails ==
    /\ attempt = 0
    /\ \E error \in HttpErrors : CallFailsWith(error)

\* classifyError (lib/error-handler.ts): the class of the error and whether it
\* is retryable
classifyError(error) ==
    IF error.status = 429 THEN [type |-> "RATE_LIMIT", retryable |-> TRUE]
    ELSE IF error.status = 403 THEN [type |-> "QUOTA_EXCEEDED", retryable |-> FALSE]
    ELSE IF error.code = "ECONNABORTED" \/ error.code = "ETIMEDOUT"
    THEN [type |-> "NETWORK_ERROR", retryable |-> TRUE]
    ELSE IF error.status >= 500 THEN [type |-> "API_ERROR", retryable |-> TRUE]
    ELSE IF error.status >= 400 /\ error.status < 500
    THEN [type |-> "VALIDATION_ERROR", retryable |-> FALSE]
    ELSE [type |-> "UNKNOWN_ERROR", retryable |-> FALSE]

\* the timer of the wait fires: attempt++, and the loop goes on while
\* attempt <= maxRetries; after the loop, throw lastError
WaitEnds ==
    /\ retryPc = "wait"
    /\ now' = now + trace[Len(trace)].n
    /\ attempt' = attempt + 1
    /\ IF attempt' <= retryOptions.maxRetries
       THEN retryPc' = "call" /\ thrown' = thrown
       ELSE retryPc' = "rejected" /\ thrown' = lastError
    /\ UNCHANGED <<retryOptions, onRetryGiven, lastError, calls, trace>>

RTInit ==
    /\ retryOptions \in RetryOptions
    /\ onRetryGiven \in BOOLEAN
    /\ retryPc = "call"
    /\ attempt = 0
    /\ lastError = NoError
    /\ thrown = NoError
    /\ calls = <<>>
    /\ trace = <<>>

\* ------------------------------------------------------------------ AsyncEvaluationQueue

MaxJobs == 2

\* how often the unit of work of one job is run, and how many store operations fail
MaxRuns == 3

MaxStoreErrors == 1

\* the clock as the job queue sees it: the drains and the retries are minutes apart
JobClockSteps == {60000}

MaxJobClock == 120000

JobTick ==
    /\ \E d \in JobClockSteps :
        /\ now + d <= MaxJobClock
        /\ now' = now + d

\* a Date field that is not set
Unset == -1

\* .limit(5), scaled down so that more due jobs than one drain takes can be
\* exercised
BatchLimit == 1

\* attempts, the saved statuses and the notifications are counted as far as
\* MaxRuns runs of a job can take them; runs beyond that leave them there
AttemptsCap == 2 * MaxRuns

StatusLogCap == 3 * MaxRuns + 1

NotifiedCap == MaxRuns

\* maxAttempts: 3
DefaultMaxAttempts == 3

NoJob ==
    [jobId |-> 0, status |-> "none", priority |-> "low", attempts |-> 0,
     maxAttempts |-> 0, createdAt |-> Unset, startedAt |-> Unset,
     completedAt |-> Unset, nextRetryAt |-> Unset, result |-> FALSE, error |-> ""]

\* new EvaluationJob({ jobId, itemId, status: 'pending', priority, attempts: 0,
\* maxAttempts: 3, createdAt: new Date() })
NewJob(jobId, priority) ==
    [jobId |-> jobId, status |-> "pending", priority |-> priority, attempts |-> 0,
     maxAttempts |-> DefaultMaxAttempts, createdAt |-> now, startedAt |-> Unset,
     completedAt |-> Unset, nextRetryAt |-> Unset, result |-> FALSE, error |-> ""]

\* the store sorts the priority strings: 'high' < 'low' < 'medium'
stringOrder(p) == CASE p = "high" -> 1 [] p = "low" -> 2 [] p = "medium" -> 3

\* .sort({ priority: -1, createdAt: 1 }); documents equal in both come in
\* insertion order
SortsBefore(a, b) ==
    \/ stringOrder(a.priority) > stringOrder(b.priority)
    \/ /\ stringOrder(a.priority) = stringOrder(b.priority)
       /\ \/ a.createdAt < b.createdAt
          \/ a.createdAt = b.createdAt /\ a.jobId < b.jobId

RECURSIVE Sorted(_)
Sorted(docs) ==
    IF docs = {} THEN <<>>
    ELSE LET first == CHOOSE a \in docs : \A b \in docs \ {a} : SortsBefore(a, b)
         IN  <<first>> \o Sorted(docs \ {first})

\* status in ['pending', 'failed'] and (nextRetryAt missing or nextRetryAt <= now)
IsDue(doc) ==
    /\ doc.status \in {"pending", "failed"}
    /\ doc.nextRetryAt = Unset \/ doc.nextRetryAt <= now

\* EvaluationJob.find(...).sort(...).limit(5)
FindPending ==
    LET due == Sorted({jobs[j] : j \in {i \in 1..Len(jobs) : IsDue(jobs[i])}})
    IN  SubSeq(due, 1, Min(Len(due), BatchLimit))

\* processJob, up to its first save: status, startedAt, attempts++
BeginJobNoIncrement(doc) ==
    [doc EXCEPT !.status = "processing", !.startedAt = now]

BeginJob(doc) ==
    [doc EXCEPT !.status = "processing", !.startedAt = now,
                !.attempts = Min(@ + 1, AttemptsCap)]

\* the loop of processQueue from index p on: a job in `processing` is skipped, the
\* next one is added to it and processJob is called; after the last one the
\* finally block clears isProcessing.  D holds the fields the loop changes.
RECURSIVE loop(_)
loop(D) ==
    IF D.pos > Len(D.pendingJobs)
    THEN [D EXCEPT !.isProcessing = FALSE, !.drainPc = "idle", !.pendingJobs = <<>>,
                   !.pos = 0, !.job = NoJob]
    ELSE IF D.pendingJobs[D.pos].jobId \in D.jobProcessing
    THEN loop([D EXCEPT !.pos = @ + 1])
    ELSE [D EXCEPT !.jobProcessing = @ \cup {D.pendingJobs[D.pos].jobId},
                   !.job = BeginJob(D.pendingJobs[D.pos]),
                   !.drainPc = "saveProcessing"]

Drain ==
    [isProcessing |-> isProcessing, drainPc |-> drainPc, pendingJobs |-> pendingJobs,
     pos |-> pos, job |-> job, jobProcessing |-> jobProcessing]

SetDrain(D) ==
    /\ isProcessing' = D.isProcessing
    /\ drainPc' = D.drainPc
    /\ pendingJobs' = D.pendingJobs
    /\ pos' = D.pos
    /\ job' = D.job
    /\ jobProcessing' = D.jobProcessing

\* processJob has returned or thrown: the finally block of the loop body, then
\* the next job
jobDone == loop([Drain EXCEPT !.jobProcessing = @ \ {job.jobId}, !.pos = @ + 1])

\* processQueue without its first line
processQueueNoGuard == [Drain EXCEPT !.isProcessing = TRUE, !.drainPc = "find"]

\* processQueue, up to its first await: the single-flight flag
processQueue ==
    IF isProcessing THEN Drain
    ELSE [Drain EXCEPT !.isProcessing = TRUE, !.drainPc = "find"]

\* job.save() writes the document
Save(doc) ==
    /\ jobs' = [jobs EXCEPT ![doc.jobId] = doc]
    /\ statusLog' = [statusLog EXCEPT ![doc.jobId] =
                        IF Len(@) < StatusLogCap THEN Append(@, doc.status) ELSE @]

RECURSIVE Sum(_)
Sum(s) == IF s = <<>> THEN 0 ELSE Head(s) + Sum(Tail(s))

\* a store operation of a run of the job throws
StoreFails(jobId) ==
    /\ Sum(storeErrors) < MaxStoreErrors
    /\ storeErrors' = [storeErrors EXCEPT ![jobId] = @ + 1]

\* min(60000 * 2^(attempts - 1), 600000)
retryDelay(attempts) == Min(60000 * Pow(2, attempts - 1), 600000)

\* the catch block of processJob, up to its save
catchBlock(doc) ==
    LET failed == [doc EXCEPT !.attempts = Min(@ + 1, AttemptsCap)]
    IN  IF failed.attempts >= failed.maxAttempts
        THEN [failed EXCEPT !.status = "failed", !.error = "max",
                            !.completedAt = now]
        ELSE [failed EXCEPT !.status = "failed", !.error = "message",
                            !.nextRetryAt = now + retryDelay(failed.attempts)]

catchPc(doc) ==
    IF doc.attempts + 1 >= doc.maxAttempts THEN "saveFailed" ELSE "saveRetry"

\* AsyncEvaluationQueue.enqueue: the job is saved, then processQueue() is called
EnqueueJob ==
    \E priority \in Priorities :
        /\ Len(jobs) < MaxJobs
        /\ jobs' = Append(jobs, NewJob(Len(jobs) + 1, priority))
        /\ statusLog' = Append(statusLog, <<"pending">>)
        /\ runs' = Append(runs, <<>>)
        /\ storeErrors' = Append(storeErrors, 0)
        /\ subjectUpdates' = Append(subjectUpdates, 0)
        /\ notified' = Append(notified, 0)
        /\ SetDrain(processQueue)
        /\ UNCHANGED now

\* the setInterval callback: evaluationQueue.processQueue()
DrainTimer ==
    /\ SetDrain(processQueue)
    /\ UNCHANGED <<now, jobs, statusLog, runs, storeErrors, subjectUpdates, notified>>

\* the find of processQueue returns: the loop starts
FindReturns ==
    /\ drainPc = "find"
    /\ SetDrain(loop([Drain EXCEPT !.pendingJobs = FindPending, !.pos = 1]))
    /\ UNCHANGED <<now, jobs, statusLog, runs, storeErrors, subjectUpdates, notified>>

\* the find of processQueue throws: the finally block
FindThrows ==
    /\ drainPc = "find"
    /\ SetDrain([Drain EXCEPT !.isProcessing = FALSE, !.drainPc = "idle"])
    /\ UNCHANGED <<now, jobs, statusLog, runs, storeErrors, subjectUpdates, notified>>

Find == FindReturns \/ FindThrows

\* the first save of processJob returns: performEvaluation is called; or it
\* throws: processJob throws
SaveProcessing ==
    /\ drainPc = "saveProcessing"
    /\ \/ /\ Save(job)
          /\ drainPc' = "evaluate"
          /\ UNCHANGED <<isProcessing, pendingJobs, pos, job, jobProcessing, storeErrors>>
       \/ /\ StoreFails(job.jobId)
          /\ SetDrain(jobDone)
          /\ UNCHANGED <<jobs, statusLog>>
    /\ UNCHANGED <<now, runs, subjectUpdates, notified>>

\* performEvaluation returns a result: status completed, result, completedAt;
\* or it throws: the catch block
performed(outcome) ==
    /\ drainPc = "evaluate"
    /\ IF outcome = "ok"
       THEN /\ job' = [job EXCEPT !.status = "completed", !.result = TRUE,
                                  !.completedAt = now]
            /\ drainPc' = "saveCompleted"
       ELSE /\ job' = catchBlock(job)
            /\ drainPc' = catchPc(job)
    /\ UNCHANGED <<now, jobs, isProcessing, jobProcessing, pendingJobs, pos, statusLog,
                   storeErrors, subjectUpdates, notified>>

Evaluate ==
    /\ drainPc = "evaluate"
    /\ Len(runs[job.jobId]) < MaxRuns
    /\ \E outcome \in {"ok", "error"} :
        /\ performed(outcome)
        /\ runs' = [runs EXCEPT ![job.jobId] = Append(@, outcome)]

\* a run of a job beyond its MaxRuns-th: the same, its outcome is not kept
EvaluateAgain ==
    /\ drainPc = "evaluate"
    /\ Len(runs[job.jobId]) >= MaxRuns
    /\ \E outcome \in {"ok", "error"} : performed(outcome)
    /\ UNCHANGED runs

\* the save of the completed job returns: updateChecklistItem is called; or it
\* throws: the catch block
SaveCompleted ==
    /\ drainPc = "saveCompleted"
    /\ \/ /\ Save(job)
          /\ drainPc' = "updateItem"
          /\ UNCHANGED <<job, storeErrors>>
       \/ /\ StoreFails(job.jobId)
          /\ job' = catchBlock(job)
          /\ drainPc' = catchPc(job)
          /\ UNCHANGED <<jobs, statusLog>>
    /\ UNCHANGED <<now, isProcessing, jobProcessing, pendingJobs, pos, runs,
                   subjectUpdates, notified>>

\* ChecklistItem.findByIdAndUpdate returns: processJob returns; or it throws: the
\* catch block
UpdateChecklistItem ==
    /\ drainPc = "updateItem"
    /\ \/ /\ subjectUpdates' = [subjectUpdates EXCEPT ![job.jobId] = @ + 1]
          /\ SetDrain(jobDone)
          /\ UNCHANGED storeErrors
       \/ /\ StoreFails(job.jobId)
          /\ job' = catchBlock(job)
          /\ drainPc' = catchPc(job)
          /\ UNCHANGED <<isProcessing, jobProcessing, pendingJobs, pos, subjectUpdates>>
    /\ UNCHANGED <<now, jobs, statusLog, runs, notified>>

\* the save of the terminally failed job returns: notifyFailure, and processJob
\* returns; or it throws: processJob throws
SaveFailed ==
    /\ drainPc = "saveFailed"
    /\ \/ /\ Save(job)
          /\ notified' = [notified EXCEPT ![job.jobId] = Min(@ + 1, NotifiedCap)]
          /\ UNCHANGED storeErrors
       \/ /\ StoreFails(job.jobId)
          /\ UNCHANGED <<jobs, statusLog, notified>>
    /\ SetDrain(jobDone)
    /\ UNCHANGED <<now, runs, subjectUpdates>>

\* the save of the job to retry returns, or throws: processJob returns or throws
SaveRetry ==
    /\ drainPc = "saveRetry"
    /\ \/ /\ Save(job)
          /\ UNCHANGED storeErrors
       \/ /\ StoreFails(job.jobId)
          /\ UNCHANGED <<jobs, statusLog>>
    /\ SetDrain(jobDone)
    /\ UNCHANGED <<now, runs, subjectUpdates, notified>>

JobInit ==
    /\ jobs = <<>>
    /\ isProcessing = FALSE
    /\ jobProcessing = {}
    /\ drainPc = "idle"
    /\ pendingJobs = <<>>
    /\ pos = 0
    /\ job = NoJob
    /\ statusLog = <<>>
    /\ runs = <<>>
    /\ storeErrors = <<>>
    /\ subjectUpdates = <<>>
    /\ notified = <<>>

\* ------------------------------------------------------------------ AlertService

\* this.thresholds; errorRate is a fraction in the code (0.1, 0.2) and is counted
\* in percent here
thresholds ==
    << [type |-> "rpm", threshold |-> 10, severity |-> "warning"],
       [type |-> "rpm", threshold |-> 14, severity |-> "critical"],
       [type |-> "tpm", threshold |-> 800000, severity |-> "warning"],
       [type |-> "tpm", threshold |-> 950000, severity |-> "critical"],
       [type |-> "errorRate", threshold |-> 10, severity |-> "warning"],
       [type |-> "errorRate", threshold |-> 20, severity |-> "critical"],
       [type |-> "queueLength", threshold |-> 50, severity |-> "warning"],
       [type |-> "queueLength", threshold |-> 100, severity |-> "critical"] >>

\* 5 * 60 * 1000
cooldownPeriod == 300000

\* `${threshold.type}-${threshold.severity}`
alertKey(threshold) == <<threshold.type, threshold.severity>>

AlertKeys == {alertKey(thresholds[i]) : i \in 1..Len(thresholds)}

\* what calculateRealTimeMetrics returns for the ring and the queue length of
\* the moment; the checks are run on these
Summaries ==
    {[requestsPerMinute |-> r, tokensPerMinute |-> 0, hourlyCost |-> 0,
      errorRate |-> 0, queueLength |-> q] : r \in {0, 14}, q \in {0, 50}}

NoSummary ==
    [requestsPerMinute |-> 0, tokensPerMinute |-> 0, hourlyCost |-> 0,
     errorRate |-> 0, queueLength |-> 0]

getValue(summary, type) ==
    CASE type = "rpm" -> summary.requestsPerMinute
      [] type = "tpm" -> summary.tokensPerMinute
      [] type = "cost" -> summary.hourlyCost
      [] type = "errorRate" -> summary.errorRate
      [] type = "queueLength" -> summary.queueLength
      [] OTHER -> 0

\* the cooldown test left out
inCooldownNever(history, key, t) == FALSE

\* Date.now() - (this.alertHistory.get(alertKey) || 0) < this.cooldownPeriod
inCooldown(history, key, t) == t - history[key] < cooldownPeriod

\* the for loop of checkAndAlert from threshold i on, up to its next await: the
\* index of the first threshold that is reached and not in cooldown, or
\* Len(thresholds) + 1 when the loop ends
RECURSIVE nextAlert(_, _, _, _)
nextAlert(i, summary, history, t) ==
    IF i > Len(thresholds) THEN i
    ELSE IF /\ getValue(summary, thresholds[i].type) >= thresholds[i].threshold
            /\ ~inCooldown(history, alertKey(thresholds[i]), t)
    THEN i
    ELSE nextAlert(i + 1, summary, history, t)

\* the checkAndAlert calls that can be under way at one time
Invocations == {1, 2}

NoCheck == [pc |-> "idle", i |-> 0, summary |-> NoSummary, sentAt |-> 0]

NoResult == [evaluated |-> 0, raised |-> FALSE]

\* what axios.post does: status 200, another 2xx status, or an error (no
\* response, a timeout, a status outside 2xx)
SendOutcomes == {"200", "204", "error"}

\* sendWebhook without its try/catch
sendWebhookNoCatch(outcome) ==
    IF ~webhookUrl THEN [ok |-> FALSE, threw |-> FALSE]
    ELSE IF outcome = "error" THEN [ok |-> FALSE, threw |-> TRUE]
    ELSE [ok |-> outcome = "200", threw |-> FALSE]

\* SlackNotifier.sendWebhook: false without a webhook URL, response.status ===
\* 200 otherwise, false when axios.post throws
sendWebhook(outcome) ==
    IF ~webhookUrl THEN [ok |-> FALSE, threw |-> FALSE]
    ELSE IF outcome = "error" THEN [ok |-> FALSE, threw |-> FALSE]
    ELSE [ok |-> outcome = "200", threw |-> FALSE]

\* invocation s goes on with threshold i under alertHistory `history`: it
\* awaits sendAlert for the next threshold to alert on, or returns
continueCheck(s, summary, i, history) ==
    LET k == nextAlert(i, summary, history, now)
    IN  IF k > Len(thresholds)
        THEN /\ checks' = [checks EXCEPT ![s] = NoCheck]
             /\ lastCheck' = [lastCheck EXCEPT
                                ![s] = [evaluated |-> Len(thresholds), raised |-> FALSE]]
        ELSE /\ checks' = [checks EXCEPT
                                ![s] = [pc |-> "send", i |-> k, summary |-> summary,
                                        sentAt |-> now]]
             /\ UNCHANGED lastCheck

\* AlertService.checkAndAlert is called
CheckAndAlert(s) ==
    /\ checks[s].pc = "idle"
    /\ IF ~alertsEnabled
       THEN /\ lastCheck' = [lastCheck EXCEPT ![s] = NoResult]
            /\ UNCHANGED checks
       ELSE \E summary \in Summaries : continueCheck(s, summary, 1, alertHistory)
    /\ UNCHANGED <<now, alertsEnabled, webhookUrl, alertHistory, sends>>

\* the suppression timestamp written only after a send that returned true
alertHistorySetOnSuccess(history, key, ok, t) ==
    IF ok THEN [history EXCEPT ![key] = t] ELSE history

\* this.alertHistory.set(alertKey, Date.now()): the value sendAlert resolved
\* with is not looked at
alertHistorySet(history, key, ok, t) == [history EXCEPT ![key] = t]

\* slackNotifier.sendAlert has settled: alertHistory.set(alertKey, Date.now())
\* and the loop goes on; an error of it would leave checkAndAlert
SendDone(s) ==
    /\ checks[s].pc = "send"
    /\ \E outcome \in SendOutcomes :
        LET chk == checks[s]
            key == alertKey(thresholds[chk.i])
            r == sendWebhook(outcome)
            history == alertHistorySet(alertHistory, key, r.ok, now)
        IN  /\ sends' = Append(sends, [key |-> key, at |-> chk.sentAt, ok |-> r.ok,
                                       threw |-> r.threw, invocation |-> s])
            /\ IF r.threw
               THEN /\ checks' = [checks EXCEPT ![s] = NoCheck]
                    /\ lastCheck' = [lastCheck EXCEPT
                                        ![s] = [evaluated |-> chk.i, raised |-> TRUE]]
                    /\ UNCHANGED alertHistory
               ELSE /\ alertHistory' = history
                    /\ continueCheck(s, chk.summary, chk.i + 1, history)
    /\ UNCHANGED <<now, alertsEnabled, webhookUrl>>

\* the clock as the alert checks see it
AlertClockSteps == {150000}

MaxAlertClock == 900000

AlertTick ==
    /\ \E d \in AlertClockSteps :
        /\ now + d <= MaxAlertClock
        /\ now' = now + d

AlertInit ==
    /\ alertsEnabled \in BOOLEAN
    /\ webhookUrl \in BOOLEAN
    /\ alertHistory = [key \in AlertKeys |-> 0]
    /\ checks = [s \in Invocations |-> NoCheck]
    /\ lastCheck = [s \in Invocations |-> NoResult]
    /\ sends = <<>>

\* ------------------------------------------------------------------ MetricsCollector

\* private maxSize = 10000 and the flush every 100 records, scaled down alike
maxSize == 4

flushEvery == 2

MaxRecords == 7

Statuses == {"success", "error"}

\* this.metrics.pop() in the place of shift()
dropNewest(ring) == SubSeq(ring, 1, Len(ring) - 1)

\* this.metrics.shift()
shift(ring) == Tail(ring)

\* MetricsCollector.record: push, shift when over maxSize, flush when the length
\* is a multiple of 100
record(ring, metric) ==
    LET pushed == Append(ring, metric)
        kept == IF Len(pushed) > maxSize THEN shift(pushed) ELSE pushed
    IN  [metrics |-> kept, flush |-> Len(kept) % flushEvery = 0]

Record ==
    /\ recorded < MaxRecords
    /\ \E status \in Statuses :
        LET r == record(metrics, [n |-> recorded + 1, timestamp |-> now,
                                  status |-> status])
        IN  /\ metrics' = r.metrics
            /\ flushes' = IF r.flush THEN Append(flushes, recorded + 1) ELSE flushes
    /\ recorded' = recorded + 1
    /\ UNCHANGED now

\* 24 * 60 * 60 * 1000 and 60 * 60 * 1000
dayMs == 86400000

hourMs == 3600000

\* the filter of the last hour in the place of the filter of the last day
lastHour(ring, t) == SelectSeq(ring, LAMBDA m : m.timestamp >= t - hourMs)

\* this.metrics.filter(m => m.timestamp.getTime() >= oneDayAgo)
lastDay(ring, t) == SelectSeq(ring, LAMBDA m : m.timestamp >= t - dayMs)

\* a quotient of two counts, kept as the pair of them
Ratio(a, b) == [num |-> a, den |-> b]

Zero == Ratio(0, 1)

\* MetricsCollector.getSummary: the counts of the last day and errorRate
getSummary(ring, t) ==
    LET day == lastDay(ring, t)
        successfulLastDay == SelectSeq(day, LAMBDA m : m.status = "success")
    IN  [totalRequests |-> Len(day),
         successfulRequests |-> Len(successfulLastDay),
         failedRequests |-> Len(day) - Len(successfulLastDay),
         errorRate |-> IF Len(day) > 0
                       THEN Ratio(Len(day) - Len(successfulLastDay), Len(day))
                       ELSE Zero]

\* the clock as the summaries see it: half a day at a time
MetricsClockSteps == {43200000}

MaxMetricsClock == 129600000

MetricsTick ==
    /\ \E d \in MetricsClockSteps :
        /\ now + d <= MaxMetricsClock
        /\ now' = now + d

MetricsInit ==
    /\ metrics = <<>>
    /\ recorded = 0
    /\ flushes = <<>>

\* ------------------------------------------------------------------ callGeminiAPI: metrics

\* usageMetadata?.totalTokenCount || 0 of a response
TokenCounts == {0, 1200}

\* every settled call recorded as a success
geminiMetricAlwaysSuccess(n, requestId, outcome, totalTokens) ==
    [n |-> n, timestamp |-> now, status |-> "success", requestId |-> requestId,
     totalTokens |-> totalTokens]

\* the metric callGeminiAPI records: in the operation when the response is
\* read (status 'success', the token counts of the response), in its catch
\* block when enqueue rejects (status 'error', zero counts)
geminiMetric(n, requestId, outcome, totalTokens) ==
    IF outcome = "result"
    THEN [n |-> n, timestamp |-> now, status |-> "success", requestId |-> requestId,
          totalTokens |-> totalTokens]
    ELSE [n |-> n, timestamp |-> now, status |-> "error", requestId |-> requestId,
          totalTokens |-> 0]

\* the fetch of a callGeminiAPI call settles: the metric is recorded and the
\* promise of callGeminiAPI settles as the operation did
GeminiComplete ==
    /\ Complete
    /\ \E totalTokens \in TokenCounts :
        LET request == CHOOSE q \in inflight : q.rid = lastSettle'.rid
            r == record(metrics, geminiMetric(recorded + 1, request.id,
                                              lastSettle'.outcome, totalTokens))
        IN  /\ metrics' = r.metrics
            /\ flushes' = IF r.flush THEN Append(flushes, recorded + 1) ELSE flushes
    /\ recorded' = recorded + 1

\* ------------------------------------------------------------------ specifications

\* the state of the parts a specification leaves alone
AlertIdle ==
    /\ AlertInit
    /\ ~alertsEnabled
    /\ ~webhookUrl

RLIdle ==
    /\ options = [inst \in Instances |-> [interval |-> 1000, uniqueTokenPerInterval |-> 1]]
    /\ cache = [inst \in Instances |-> <<>>]
    /\ rlLog = <<>>

PQIdle ==
    /\ PQInit
    /\ maxConcurrent = 1

RTIdle ==
    /\ RTInit
    /\ retryOptions = exportedRetryHandler
    /\ onRetryGiven

\* one RateLimiter instance under checkLimit and the two reads
RLNext ==
    \/ \E identifier \in Identifiers : CheckLimit("user", identifier) /\ UNCHANGED <<pqVars, rtVars, jobVars, alertVars, metricVars>>
    \/ \E identifier \in Identifiers : GetStats("user", identifier) /\ UNCHANGED <<pqVars, rtVars, jobVars, alertVars, metricVars>>
    \/ Tick /\ UNCHANGED <<rlVars, pqVars, rtVars, jobVars, alertVars, metricVars>>

InitRL == now = 0 /\ RLInit /\ PQIdle /\ RTIdle /\ JobInit /\ AlertIdle /\ MetricsInit

SpecRL == InitRL /\ [][RLNext]_vars

\* one PriorityRequestQueue under enqueue calls and operation completions
PQNext ==
    \/ Enqueue /\ UNCHANGED <<rlVars, rtVars, jobVars, alertVars, metricVars>>
    \/ Complete /\ UNCHANGED <<rlVars, rtVars, jobVars, alertVars, metricVars>>
    \/ TimerFire /\ UNCHANGED <<rlVars, rtVars, jobVars, alertVars, metricVars>>
    \/ QueueTick /\ UNCHANGED <<rlVars, pqVars, rtVars, jobVars, alertVars, metricVars>>

InitPQ == now = 0 /\ RLIdle /\ PQInit /\ RTIdle /\ JobInit /\ AlertIdle /\ MetricsInit

SpecPQ == InitPQ /\ [][PQNext]_vars

\* the request queue with clear() called at any moment
PQClearNext ==
    \/ Enqueue /\ UNCHANGED <<rlVars, rtVars, jobVars, alertVars, metricVars>>
    \/ Complete /\ UNCHANGED <<rlVars, rtVars, jobVars, alertVars, metricVars>>
    \/ TimerFire /\ UNCHANGED <<rlVars, rtVars, jobVars, alertVars, metricVars>>
    \/ Clear /\ UNCHANGED <<rlVars, rtVars, jobVars, alertVars, metricVars>>
    \/ QueueTick /\ UNCHANGED <<rlVars, pqVars, rtVars, jobVars, alertVars, metricVars>>

InitPQClear == now = 0 /\ RLIdle /\ PQInit /\ RTIdle /\ JobInit /\ AlertIdle /\ MetricsInit

SpecPQClear == InitPQClear /\ [][PQClearNext]_vars

\* the provider path: performEvaluation's callGeminiAPI calls run through
\* geminiRequestQueue, beside requests that pass the withRateLimit middleware
GeminiNext ==
    \/ CallGeminiAPI /\ UNCHANGED <<rlVars, rtVars, jobVars, alertVars, metricVars>>
    \/ GeminiComplete /\ UNCHANGED <<rlVars, rtVars, jobVars, alertVars>>
    \/ TimerFire /\ UNCHANGED <<rlVars, rtVars, jobVars, alertVars, metricVars>>
    \/ WithRateLimit(1) /\ UNCHANGED <<pqVars, rtVars, jobVars, alertVars, metricVars>>
    \/ QueueTick /\ UNCHANGED <<rlVars, pqVars, rtVars, jobVars, alertVars, metricVars>>

InitGemini == now = 0 /\ RLInit /\ PQInit /\ RTIdle /\ JobInit /\ AlertIdle /\ MetricsInit

SpecGemini == InitGemini /\ [][GeminiNext]_vars

\* one RetryHandler.execute call
RetryNext ==
    \/ CallSucceeds /\ UNCHANGED <<rlVars, pqVars, jobVars, alertVars, metricVars>>
    \/ CallFails /\ UNCHANGED <<rlVars, pqVars, jobVars, alertVars, metricVars>>
    \/ WaitEnds /\ UNCHANGED <<rlVars, pqVars, jobVars, alertVars, metricVars>>

InitRetry == now = 0 /\ RLIdle /\ PQIdle /\ RTInit /\ JobInit /\ AlertIdle /\ MetricsInit

SpecRetry == InitRetry /\ [][RetryNext]_vars

\* the exported retryHandler, whose first call of fn throws any error
ClassifyNext ==
    \/ FirstCallFails /\ UNCHANGED <<rlVars, pqVars, jobVars, alertVars, metricVars>>
    \/ WaitEnds /\ UNCHANGED <<rlVars, pqVars, jobVars, alertVars, metricVars>>
    \/ CallSucceeds /\ UNCHANGED <<rlVars, pqVars, jobVars, alertVars, metricVars>>

InitClassify == now = 0 /\ RLIdle /\ PQIdle /\ RTIdle /\ JobInit /\ AlertIdle /\ MetricsInit

SpecClassify == InitClassify /\ [][ClassifyNext]_vars

\* the job queue under enqueue calls, the 30 s timer and the steps of its drain
JobNext ==
    \/ EnqueueJob /\ UNCHANGED <<rlVars, pqVars, rtVars, alertVars, metricVars>>
    \/ DrainTimer /\ UNCHANGED <<rlVars, pqVars, rtVars, alertVars, metricVars>>
    \/ Find /\ UNCHANGED <<rlVars, pqVars, rtVars, alertVars, metricVars>>
    \/ SaveProcessing /\ UNCHANGED <<rlVars, pqVars, rtVars, alertVars, metricVars>>
    \/ Evaluate /\ UNCHANGED <<rlVars, pqVars, rtVars, alertVars, metricVars>>
    \/ SaveCompleted /\ UNCHANGED <<rlVars, pqVars, rtVars, alertVars, metricVars>>
    \/ UpdateChecklistItem /\ UNCHANGED <<rlVars, pqVars, rtVars, alertVars, metricVars>>
    \/ SaveFailed /\ UNCHANGED <<rlVars, pqVars, rtVars, alertVars, metricVars>>
    \/ SaveRetry /\ UNCHANGED <<rlVars, pqVars, rtVars, alertVars, metricVars>>
    \/ JobTick /\ UNCHANGED <<rlVars, pqVars, rtVars, jobVars, alertVars, metricVars>>

InitJob == now = 0 /\ RLIdle /\ PQIdle /\ RTIdle /\ JobInit /\ AlertIdle /\ MetricsInit

SpecJob == InitJob /\ [][JobNext]_vars

\* a step of the running drain, with a store whose reads succeed and with runs
\* of a job beyond those the histories keep
JobDrainStep ==
    /\ \/ FindReturns
       \/ SaveProcessing
       \/ Evaluate
       \/ EvaluateAgain
       \/ SaveCompleted
       \/ UpdateChecklistItem
       \/ SaveFailed
       \/ SaveRetry
    /\ UNCHANGED <<rlVars, pqVars, rtVars, alertVars, metricVars>>

JobTimerStep == DrainTimer /\ UNCHANGED <<rlVars, pqVars, rtVars, alertVars, metricVars>>

\* the job queue when the 30 s timer keeps firing and every step of a drain,
\* the unit of work included, comes to its end
JobFairNext ==
    \/ EnqueueJob /\ UNCHANGED <<rlVars, pqVars, rtVars, alertVars, metricVars>>
    \/ JobTimerStep
    \/ JobDrainStep
    \/ JobTick /\ UNCHANGED <<rlVars, pqVars, rtVars, jobVars, alertVars, metricVars>>

InitJobFair == now = 0 /\ RLIdle /\ PQIdle /\ RTIdle /\ JobInit /\ AlertIdle /\ MetricsInit

SpecJobFair ==
    /\ InitJobFair
    /\ [][JobFairNext]_vars
    /\ WF_vars(JobTimerStep)
    /\ WF_vars(JobDrainStep)

\* the monitoring timer: one checkAndAlert call after the other
AlertNext ==
    \/ CheckAndAlert(1) /\ UNCHANGED <<rlVars, pqVars, rtVars, jobVars, metricVars>>
    \/ SendDone(1) /\ UNCHANGED <<rlVars, pqVars, rtVars, jobVars, metricVars>>
    \/ AlertTick /\ UNCHANGED <<rlVars, pqVars, rtVars, jobVars, alertVars, metricVars>>

\* the clock starts later than cooldownPeriod after the epoch
InitAlert == now = cooldownPeriod /\ RLIdle /\ PQIdle /\ RTIdle /\ JobInit /\ AlertInit /\ MetricsInit

SpecAlert == InitAlert /\ [][AlertNext]_vars

\* checkAndAlert called again while an earlier call awaits its send
AlertOverlapNext ==
    \/ CheckAndAlert(1) /\ UNCHANGED <<rlVars, pqVars, rtVars, jobVars, metricVars>>
    \/ CheckAndAlert(2) /\ UNCHANGED <<rlVars, pqVars, rtVars, jobVars, metricVars>>
    \/ SendDone(1) /\ UNCHANGED <<rlVars, pqVars, rtVars, jobVars, metricVars>>
    \/ SendDone(2) /\ UNCHANGED <<rlVars, pqVars, rtVars, jobVars, metricVars>>
    \/ AlertTick /\ UNCHANGED <<rlVars, pqVars, rtVars, jobVars, alertVars, metricVars>>

\* the clock starts one step before its last value
InitAlertOverlap ==
    now = MaxAlertClock - 150000 /\ RLIdle /\ PQIdle /\ RTIdle /\ JobInit /\ AlertInit /\ MetricsInit

SpecAlertOverlap == InitAlertOverlap /\ [][AlertOverlapNext]_vars

\* the metrics ring under record calls
MetricsNext ==
    \/ Record /\ UNCHANGED <<rlVars, pqVars, rtVars, jobVars, alertVars>>
    \/ MetricsTick /\ UNCHANGED <<rlVars, pqVars, rtVars, jobVars, alertVars, metricVars>>

InitMetrics == now = 0 /\ RLIdle /\ PQIdle /\ RTIdle /\ JobInit /\ AlertIdle /\ MetricsInit

SpecMetrics == InitMetrics /\ [][MetricsNext]_vars

\* ------------------------------------------------------------------ claims

\* C1: every provider call started through callGeminiAPI was admitted by the
\* global RateLimiter, so no window of `interval` ms holds more started provider
\* calls than the global limit.
C1_ProviderCallsWithinGlobalLimit ==
    \A i \in 1..Len(providerCalls) :
        Cardinality({j \in 1..i : providerCalls[i] - providerCalls[j]
                                    < options["gemini"].interval})
            <= options["gemini"].uniqueTokenPerInterval

\* the calls of rlLog before the i-th that were admitted for the same identifier
\* less than `interval` ms before it
AdmittedBefore(i) ==
    {j \in 1..(i - 1) :
        /\ rlLog[j].inst = rlLog[i].inst
        /\ rlLog[j].id = rlLog[i].id
        /\ rlLog[j].ok
        /\ rlLog[i].t - rlLog[j].t < options[rlLog[i].inst].interval}

\* C2: checkLimit(id) is denied iff at least `limit` earlier calls for the same id
\* were admitted less than `interval` ms before it, for any number of identifiers.
C2_DeniedIffLimitAdmitted ==
    \A i \in 1..Len(rlLog) :
        ~rlLog[i].ok <=>
            Cardinality(AdmittedBefore(i)) >= options[rlLog[i].inst].uniqueTokenPerInterval

\* scenario A: the first four calls are checkLimit("u1") (identifier 1), three of
\* them within one interval and the fourth at least 1100 ms after the third
ScenarioA ==
    /\ options["user"] = [interval |-> 1000, uniqueTokenPerInterval |-> 2]
    /\ Len(rlLog) >= 4
    /\ \A i \in 1..4 : rlLog[i].id = 1
    /\ rlLog[3].t - rlLog[1].t < 1000
    /\ rlLog[4].t - rlLog[3].t >= 1100

\* C3: a call is admitted whenever fewer than `limit` admitted calls of its
\* identifier are younger than `interval`; in scenario A the four calls return
\* true, true, false, true.
C3_AdmittedAgainAfterInterval ==
    /\ \A i \in 1..Len(rlLog) :
            Cardinality(AdmittedBefore(i)) < options[rlLog[i].inst].uniqueTokenPerInterval
                => rlLog[i].ok
    /\ ScenarioA => <<rlLog[1].ok, rlLog[2].ok, rlLog[3].ok, rlLog[4].ok>>
                        = <<TRUE, TRUE, FALSE, TRUE>>

C3_Witness ==
    /\ ScenarioA
    /\ ~rlLog[3].ok
    /\ rlLog[4].ok
    /\ rlLog[4].t - rlLog[3].t = 1100

\* C4: currentConcurrent never exceeds maxConcurrent.
C4_ConcurrencyCap == currentConcurrent <= maxConcurrent

\* a burst larger than the cap: the cap is reached and two more requests wait
C4_Witness ==
    /\ currentConcurrent = maxConcurrent
    /\ Cardinality(inflight) = maxConcurrent
    /\ Len(queue) >= 2

\* C5: whenever a request is started, no request left in the queue has a strictly
\* higher priority, and none has the same priority and was enqueued earlier.
C5_StartsHighestOldest ==
    lastStart.request.rid # 0 =>
        \A i \in 1..Len(lastStart.rest) :
            LET waiting == lastStart.rest[i]
                s == lastStart.request
            IN  /\ priorityOrder(waiting.priority) <= priorityOrder(s.priority)
                /\ priorityOrder(waiting.priority) = priorityOrder(s.priority)
                        => waiting.rid > s.rid

\* scenario B: maxConcurrent = 1, A (request 1) was in flight while B (high,
\* request 2), C (high, request 3) and a later low or medium request 4 were
\* enqueued; once A has settled B is started first and leaves C and request 4
\* waiting
C5_Witness ==
    /\ maxConcurrent = 1
    /\ lastStart.request.rid = 2
    /\ lastStart.request.priority = "high"
    /\ Len(lastStart.rest) = 2
    /\ lastStart.rest[1].rid = 3
    /\ lastStart.rest[1].priority = "high"
    /\ lastStart.rest[2].rid = 4
    /\ lastStart.rest[2].priority \in {"medium", "low"}
    /\ settled[1] = 1

\* the requests that have left the queue and are not in flight
Finished ==
    {rid \in 1..enqueued :
        /\ \A i \in 1..Len(queue) : queue[i].rid # rid
        /\ \A request \in inflight : request.rid # rid}

\* C6: the promise of every enqueue call is settled exactly once, resolved with
\* the operation's result or rejected with its error, also for a call whose id is
\* the id of a request in flight: a request that is neither waiting nor running
\* has had its promise settled once, and no promise is settled twice.
C6_EverySettledOnce ==
    /\ \A rid \in 1..MaxRequests : settled[rid] <= 1
    /\ \A rid \in Finished : settled[rid] = 1
    /\ lastSettle.rid # 0 =>
            (lastSettle.via = "resolve" <=> lastSettle.outcome = "result")

\* the onRetry callbacks and the waits of the trace, in order
OnRetryCalls == SelectSeq(trace, LAMBDA e : e.ev = "onRetry")

Waits == SelectSeq(trace, LAMBDA e : e.ev = "wait")

\* the calls of fn that failed with a retryable error: a status of the retryable
\* set, or no status and a timeout code
RetryableFailures ==
    SelectSeq(calls, LAMBDA c :
        /\ c # Ok
        /\ \/ c.status \in {429, 500, 502, 503, 504}
           \/ c.status = 0 /\ c.code \in {"ECONNABORTED", "ETIMEDOUT"})

Is503(c) == c # Ok /\ c.status = 503

\* C7: execute calls fn at most maxRetries + 1 times and invokes onRetry exactly
\* min(maxRetries, retryable failures) times with attempt numbers 1, 2, ...; fn
\* failing with 503 twice and then succeeding under maxRetries = 3 resolves with
\* 2 onRetry calls; when all maxRetries + 1 calls fail with retryable errors
\* execute rejects with the error of the last call.
C7_RetryCount ==
    /\ Len(calls) <= retryOptions.maxRetries + 1
    /\ onRetryGiven =>
        /\ Len(OnRetryCalls) = Min(retryOptions.maxRetries, Len(RetryableFailures))
        /\ \A i \in 1..Len(OnRetryCalls) : OnRetryCalls[i].n = i
    /\ (/\ retryOptions.maxRetries = 3
        /\ onRetryGiven
        /\ Len(calls) = 3
        /\ Is503(calls[1]) /\ Is503(calls[2]) /\ calls[3] = Ok)
            => retryPc = "resolved" /\ Len(OnRetryCalls) = 2
    /\ Len(RetryableFailures) = retryOptions.maxRetries + 1
            => retryPc = "rejected" /\ thrown = calls[Len(calls)]

\* scenario C has happened
C7_Witness ==
    /\ retryOptions.maxRetries = 3
    /\ onRetryGiven
    /\ Len(calls) = 3
    /\ Is503(calls[1]) /\ Is503(calls[2]) /\ calls[3] = Ok
    /\ retryPc = "resolved"

\* C8: the wait after failed attempt n (from 0) is min(initialDelay *
\* backoffMultiplier^n, maxDelay); the waits are non-decreasing and at most
\* maxDelay (2 s, 4 s, 8 s for the exported retryHandler); onRetry fires before
\* the wait begins.
C8_BackoffSchedule ==
    /\ \A i \in 1..Len(Waits) :
        /\ Waits[i].n = Min(retryOptions.initialDelay
                                * Pow(retryOptions.backoffMultiplier, i - 1),
                            retryOptions.maxDelay)
        /\ Waits[i].n <= retryOptions.maxDelay
        /\ i > 1 => Waits[i - 1].n <= Waits[i].n
    /\ retryOptions = exportedRetryHandler =>
        \A i \in 1..Len(Waits) : Waits[i].n = <<2000, 4000, 8000>>[i]
    /\ onRetryGiven =>
        \A k \in 1..Len(trace) :
            trace[k].ev = "wait" => k > 1 /\ trace[k - 1].ev = "onRetry"

\* the exported handler has waited three times, and a handler has waited maxDelay
C8_Witness ==
    /\ Len(Waits) >= 3
    /\ \/ retryOptions = exportedRetryHandler /\ onRetryGiven
       \/ Waits[Len(Waits)].n = retryOptions.maxDelay

\* an error that is not retryable: a status outside the retryable set, or no
\* status and no timeout code
NotRetryable(c) ==
    /\ c # Ok
    /\ \/ c.status # 0 /\ c.status \notin {429, 500, 502, 503, 504}
       \/ c.status = 0 /\ c.code \notin {"ECONNABORTED", "ETIMEDOUT"}

\* C9: when fn fails with an error that is not retryable, execute rejects with
\* that error at once: fn is not called again, no wait is taken and onRetry is
\* not invoked for that failure, whatever the attempt number.
C9_NonRetryablePropagates ==
    \A i \in 1..Len(calls) :
        NotRetryable(calls[i]) =>
            /\ i = Len(calls)
            /\ retryPc = "rejected"
            /\ thrown = calls[i]
            /\ trace[Len(trace)].ev = "call"
            /\ onRetryGiven => Len(OnRetryCalls) = i - 1
            /\ Len(Waits) = i - 1

\* a status that is not retryable, carried by an error with a timeout code, ends
\* execute on a later attempt
C9_Witness ==
    /\ Len(calls) >= 2
    /\ calls[Len(calls)] # Ok
    /\ calls[Len(calls)].status = 400
    /\ calls[Len(calls)].code = "ETIMEDOUT"
    /\ retryPc = "rejected"

IsPrefix(s, t) == Len(s) <= Len(t) /\ s = SubSeq(t, 1, Len(s))

\* the first run of job j succeeded: its unit of work returned a result and no
\* store write of the job failed
FirstRunSucceeded(j) ==
    /\ Len(runs[j]) >= 1
    /\ runs[j][1] = "ok"
    /\ storeErrors[j] = 0

\* C10: a job created by enqueue starts pending with attempts = 0; when its first
\* run succeeds its saved status passes pending, processing, completed with no
\* other status in between, and it ends with attempts = 1, result set and
\* completedAt set.
C10_SucceedingJob ==
    \A j \in 1..Len(jobs) :
        /\ statusLog[j][1] = "pending"
        /\ statusLog[j] = <<"pending">> =>
                jobs[j].status = "pending" /\ jobs[j].attempts = 0
        /\ FirstRunSucceeded(j) =>
            /\ IsPrefix(statusLog[j], <<"pending", "processing", "completed">>)
            /\ Len(runs[j]) = 1
            /\ j \notin jobProcessing =>
                /\ statusLog[j] = <<"pending", "processing", "completed">>
                /\ jobs[j].status = "completed"
                /\ jobs[j].attempts = 1
                /\ jobs[j].result
                /\ jobs[j].completedAt # Unset

\* a job has run once, successfully, and its run has ended
C10_Witness ==
    \E j \in 1..Len(jobs) :
        /\ FirstRunSucceeded(j)
        /\ j \notin jobProcessing
        /\ jobs[j].status = "completed"
        /\ subjectUpdates[j] = 1

\* the runs of job j so far all failed in the unit of work, no store write of
\* the job failed, and no run of it is under way
AllRunsFailed(j) ==
    /\ Len(runs[j]) >= 1
    /\ \A i \in 1..Len(runs[j]) : runs[j][i] = "error"
    /\ storeErrors[j] = 0
    /\ j \notin jobProcessing

\* the stored job is failed for good
Terminal(j) == jobs[j].status = "failed" /\ jobs[j].attempts >= jobs[j].maxAttempts

\* C11: a job whose unit of work fails on every run is retryable, with
\* nextRetryAt set and attempts equal to the number of runs, after each of its
\* first maxAttempts - 1 runs, and is terminally failed with attempts =
\* maxAttempts after exactly maxAttempts runs.
C11_TerminalAfterMaxAttempts ==
    \A j \in 1..Len(jobs) :
        AllRunsFailed(j) =>
            /\ jobs[j].status = "failed"
            /\ jobs[j].attempts = Len(runs[j])
            /\ Len(runs[j]) <= jobs[j].maxAttempts
            /\ Len(runs[j]) < jobs[j].maxAttempts =>
                    ~Terminal(j) /\ jobs[j].nextRetryAt # Unset
            /\ Len(runs[j]) = jobs[j].maxAttempts => Terminal(j)

\* C12: from the moment a job is stored as failed with attempts >= maxAttempts,
\* its document, the runs of its unit of work and its failure notifications
\* stay as they are, no drain selects it, and attempts is at most maxAttempts.
C12_TerminalFailureAbsorbing ==
    [][\A j \in 1..Len(jobs) :
            Terminal(j) =>
                /\ jobs'[j] = jobs[j]
                /\ runs'[j] = runs[j]
                /\ notified'[j] = notified[j]
                /\ notified[j] <= 1
                /\ jobs[j].attempts <= jobs[j].maxAttempts
                /\ pendingJobs' # pendingJobs =>
                        \A i \in 1..Len(pendingJobs') : pendingJobs'[i].jobId # j]_vars

\* C13: after a save with status completed no other status is saved for the
\* job and its unit of work is not run again; the subject record is updated at
\* most once per job, and only for a job stored as completed.
C13_CompletionAbsorbing ==
    \A j \in 1..Len(jobs) :
        /\ \A i \in 1..Len(statusLog[j]) :
                statusLog[j][i] = "completed" => i = Len(statusLog[j])
        /\ jobs[j].status = "completed" /\ drainPc = "evaluate" => job.jobId # j
        /\ subjectUpdates[j] <= 1
        /\ subjectUpdates[j] = 1 => jobs[j].status = "completed"

\* the due jobs the find of a drain would leave unselected
Unselected ==
    {jobs[j] : j \in {i \in 1..Len(jobs) :
                        /\ IsDue(jobs[i])
                        /\ \A k \in 1..Len(FindPending) : FindPending[k].jobId # i}}

\* C14: what the find of a drain returns is at most BatchLimit jobs, each
\* pending or failed and due, in the order high, medium, low, oldest first
\* within one priority, and none of them has a lower priority than a due job
\* it leaves unselected.
C14_SelectionOrder ==
    drainPc = "find" =>
        /\ Len(FindPending) <= BatchLimit
        /\ \A i \in 1..Len(FindPending) :
                /\ FindPending[i].status \in {"pending", "failed"}
                /\ FindPending[i].nextRetryAt = Unset \/ FindPending[i].nextRetryAt <= now
        /\ \A i, k \in 1..Len(FindPending) :
                i < k =>
                    \/ priorityOrder(FindPending[i].priority)
                            > priorityOrder(FindPending[k].priority)
                    \/ /\ FindPending[i].priority = FindPending[k].priority
                       /\ FindPending[i].createdAt <= FindPending[k].createdAt
        /\ \A i \in 1..Len(FindPending) :
                \A u \in Unselected :
                    priorityOrder(FindPending[i].priority) >= priorityOrder(u.priority)

\* C15: the single-flight flag is set exactly while a drain is under way, also
\* after a drain that ended by an error; a processQueue call made while it is
\* set returns with the drain as it was, and an enqueue made then changes no
\* stored job.
C15_SingleFlight ==
    /\ [](/\ isProcessing <=> drainPc # "idle"
          /\ isProcessing => processQueue = Drain
          /\ ~isProcessing => jobProcessing = {} /\ pendingJobs = <<>>)
    /\ [][isProcessing /\ Len(jobs') > Len(jobs) =>
            /\ Drain' = Drain
            /\ SubSeq(jobs', 1, Len(jobs)) = jobs]_vars

\* a job was enqueued while the drain that runs the first job is under way
C15_Witness ==
    /\ isProcessing
    /\ drainPc = "evaluate"
    /\ job.jobId = 1
    /\ Len(jobs) = 2
    /\ \A i \in 1..Len(pendingJobs) : pendingJobs[i].jobId # 2
    /\ jobs[2].status = "pending"

\* C16: when a run ends in the retry branch, nextRetryAt is now + min(60 s *
\* 2^(k-1), 10 min) with k the number of runs of the job so far, and a job is
\* not run before its nextRetryAt.
C16_RetryBackoff ==
    [][/\ drainPc # "saveRetry" /\ drainPc' = "saveRetry" =>
            job'.nextRetryAt = now' + retryDelay(Len(runs'[job'.jobId]))
       /\ drainPc # "saveProcessing" /\ drainPc' = "saveProcessing" =>
            jobs[job'.jobId].nextRetryAt <= now']_vars

\* the sends for one pair so far, the one under way included: [key, at]
SendsOf(key) ==
    {[index |-> a, at |-> sends[a].at] : a \in {b \in 1..Len(sends) : sends[b].key = key}}
    \cup {[index |-> Len(sends) + s, at |-> checks[s].sentAt] :
            s \in {v \in Invocations : /\ checks[v].pc = "send"
                                       /\ alertKey(thresholds[checks[v].i]) = key}}

\* C17: over successive checkAndAlert calls, two sends for one (type, severity)
\* pair are at least cooldownPeriod apart.
C17_CooldownBetweenSends ==
    \A key \in AlertKeys :
        \A x, y \in SendsOf(key) :
            x.index < y.index => y.at - x.at >= cooldownPeriod

\* a pair was sent for twice while its threshold stayed reached
C17_Witness ==
    \E a, b \in 1..Len(sends) :
        /\ a < b
        /\ sends[a].key = sends[b].key
        /\ sends[b].at - sends[a].at >= cooldownPeriod

\* C18: no checkAndAlert call ends by raising, whatever the sender does, and a
\* call that ran its loop has evaluated every threshold when it ends.
C18_SendFailureContained ==
    /\ \A s \in Invocations :
        /\ ~lastCheck[s].raised
        /\ lastCheck[s] # NoResult => lastCheck[s].evaluated = Len(thresholds)
    /\ \A a \in 1..Len(sends) : ~sends[a].threw

\* a send failed in the transport and the check went on to send for a later
\* threshold and ended
C18_Witness ==
    /\ webhookUrl
    /\ lastCheck[1].evaluated = Len(thresholds)
    /\ checks[1].pc = "idle"
    /\ \E a, b \in 1..Len(sends) :
        /\ a < b
        /\ ~sends[a].ok
        /\ sends[a].at = sends[b].at
        /\ sends[a].key # sends[b].key

\* C19: the ring holds at most maxSize metrics, and they are the most recently
\* recorded ones in record order.
C19_RingKeepsNewest ==
    /\ Len(metrics) = Min(recorded, maxSize)
    /\ \A i \in 1..Len(metrics) : metrics[i].n = recorded - Len(metrics) + i

\* the ring has overflowed and the oldest metrics are gone
C19_Witness ==
    /\ recorded > maxSize + 1
    /\ Len(metrics) = maxSize
    /\ metrics[1].n = recorded - maxSize + 1

\* C20: the record calls that trigger the flush are the calls whose number is a
\* multiple of the flush period, and no other.
C20_FlushEveryHundred ==
    /\ \A i \in 1..Len(flushes) : flushes[i] % flushEvery = 0
    /\ \A k \in 1..recorded :
        k % flushEvery = 0 => \E i \in 1..Len(flushes) : flushes[i] = k

\* the metrics of the ring whose timestamp lies in the last 24 h, by position
InLastDay == {i \in 1..Len(metrics) : now - metrics[i].timestamp <= dayMs}

FailedInLastDay == {i \in InLastDay : metrics[i].status = "error"}

\* C21: whatever the ring holds, getSummary counts the metrics of the last 24 h,
\* successfulRequests + failedRequests = totalRequests, errorRate is
\* failedRequests / totalRequests, and it is 0 when totalRequests = 0.
C21_ErrorRate ==
    LET summary == getSummary(metrics, now)
    IN  /\ summary.totalRequests = Cardinality(InLastDay)
        /\ summary.failedRequests = Cardinality(FailedInLastDay)
        /\ summary.successfulRequests + summary.failedRequests = summary.totalRequests
        /\ summary.totalRequests = 0 => summary.errorRate = Zero
        /\ summary.totalRequests > 0 =>
                summary.errorRate = Ratio(Cardinality(FailedInLastDay),
                                          Cardinality(InLastDay))

\* the ring holds a metric older than a day, and failed and successful ones of
\* the last day
C21_Witness ==
    /\ Len(metrics) > Cardinality(InLastDay)
    /\ Cardinality(FailedInLastDay) > 0
    /\ Cardinality(InLastDay) > Cardinality(FailedInLastDay)
    /\ \E i \in InLastDay : metrics[i].timestamp < now

\* the timestamps limiter "user" holds for an identifier at time t that a
\* checkLimit would count
RecordedTimestamps(c, identifier, t) ==
    LET i == LruIndex(c, identifier)
    IN  IF i = 0 \/ LruIsStale("user", c[i], t) THEN <<>>
        ELSE ValidTimestamps("user", c[i].value, t)

\* this step is a denied checkLimit call or a read (getStats,
\* getRemainingRequests)
DeniedOrRead ==
    /\ now' = now
    /\ \/ rlLog' = rlLog
       \/ Len(rlLog') = Len(rlLog) + 1 /\ ~rlLog'[Len(rlLog')].ok

\* C22: a denied checkLimit call or a read leaves the recorded timestamps of
\* every identifier as they were, and the next two checkLimit calls, whatever
\* identifiers they are for, answer as they would have without it.
C22_ReadsChangeNothing ==
    [][DeniedOrRead =>
        /\ \A a \in Identifiers :
            RecordedTimestamps(cache'["user"], a, now)
                = RecordedTimestamps(cache["user"], a, now)
        /\ \A a, b \in Identifiers :
            LET without == checkLimit("user", cache["user"], a, now)
                with == checkLimit("user", cache'["user"], a, now)
            IN  /\ with.ok = without.ok
                /\ checkLimit("user", with.cache, b, now).ok
                    = checkLimit("user", without.cache, b, now).ok]_vars

\* C23: the pending queue is ordered by priority rank and, within one priority,
\* by arrival: every queued request stands behind the queued requests of equal
\* or higher priority that arrived before it and ahead of those of lower
\* priority, also when timestamps are equal.
C23_QueueOrdered ==
    \A i, k \in 1..Len(queue) :
        i < k =>
            \/ priorityOrder(queue[i].priority) > priorityOrder(queue[k].priority)
            \/ /\ queue[i].priority = queue[k].priority
               /\ queue[i].rid < queue[k].rid

\* two requests of one priority and one timestamp are queued behind a request
\* of higher priority that arrived after them
C23_Witness ==
    /\ Len(queue) = 3
    /\ queue[1].rid > queue[3].rid
    /\ queue[2].priority = queue[3].priority
    /\ queue[2].timestamp = queue[3].timestamp
    /\ priorityOrder(queue[1].priority) > priorityOrder(queue[2].priority)

\* C24: whatever status and code the error of the first call carries, execute
\* goes on to wait and retry exactly when classifyError gives it a retryable
\* class, and rejects with it at once exactly when classifyError does not.
C24_RetriesWhatClassifyErrorRetries ==
    (Len(calls) >= 1 /\ calls[1] # Ok) =>
        /\ classifyError(calls[1]).retryable <=> Waits # <<>>
        /\ ~classifyError(calls[1]).retryable <=>
                (Len(calls) = 1 /\ retryPc = "rejected" /\ thrown = calls[1])

\* the metrics in the ring that carry the requestId of the n-th callGeminiAPI
\* call
MetricsOf(n) == SelectSeq(metrics, LAMBDA m : m.requestId = RandomUUID(n))

\* C25: a callGeminiAPI call has one metric in the ring when its promise has
\* settled and none before; the metric has status success when the call
\* resolved, and status error and no tokens when it rejected.
C25_OneMetricPerCall ==
    /\ \A n \in 1..enqueued :
        /\ Len(MetricsOf(n)) = settled[n]
        /\ settled[n] <= 1
        /\ \A i \in 1..Len(MetricsOf(n)) :
                MetricsOf(n)[i].status = "error" => MetricsOf(n)[i].totalTokens = 0
    /\ lastSettle # NoSettle =>
        /\ Len(MetricsOf(lastSettle.rid)) = 1
        /\ MetricsOf(lastSettle.rid)[1].status = "success" <=> lastSettle.via = "resolve"
        /\ MetricsOf(lastSettle.rid)[1].status = "error" <=> lastSettle.via = "reject"

\* one call has resolved and one has rejected, and a third is under way
C25_Witness ==
    /\ enqueued = 3
    /\ \E a, b \in 1..enqueued :
        /\ Len(MetricsOf(a)) = 1 /\ MetricsOf(a)[1].status = "success"
        /\ MetricsOf(a)[1].totalTokens > 0
        /\ Len(MetricsOf(b)) = 1 /\ MetricsOf(b)[1].status = "error"
    /\ lastSettle.via = "reject"
    /\ \E n \in 1..enqueued : settled[n] = 0

\* job j is stored with status processing and no run of it is under way
Orphaned(j) ==
    /\ j <= Len(jobs)
    /\ jobs[j].status = "processing"
    /\ j \notin jobProcessing

\* C26: a job stored as processing whose run has ended is selected and run by a
\* later drain.
C26_ProcessingIsPickedUp ==
    \A j \in 1..MaxJobs : Orphaned(j) ~> (j \in jobProcessing)

\* job j is pending, or failed and retryable, and due
Waiting(j) ==
    /\ j <= Len(jobs)
    /\ IsDue(jobs[j])
    /\ ~Terminal(j)

\* C29: a job that is pending, or failed and retryable with nextRetryAt <= now,
\* is selected and run by some drain, when the timer keeps firing and every
\* run comes to its end.
C29_DueJobIsRun ==
    \A j \in 1..MaxJobs : Waiting(j) ~> (j \in jobProcessing)

\* C27: with clear() among the calls, currentConcurrent is never negative, equals
\* the number of operations started and not yet settled, and so never more than
\* maxConcurrent operations run at once.
C27_CounterSurvivesClear ==
    /\ currentConcurrent >= 0
    /\ currentConcurrent = Cardinality(inflight)
    /\ Cardinality(inflight) <= maxConcurrent

\* the two invocations await a send for the same pair
BothSending ==
    /\ checks[1].pc = "send"
    /\ checks[2].pc = "send"
    /\ alertKey(thresholds[checks[1].i]) = alertKey(thresholds[checks[2].i])

\* C28: with overlapping checkAndAlert calls, the two calls never both send for
\* one (type, severity) pair, and any two sends for a pair are at least
\* cooldownPeriod apart.
C28_OverlapSendsOnce ==
    /\ ~BothSending
    /\ \A key \in AlertKeys :
        \A x, y \in SendsOf(key) :
            x.index # y.index /\ x.at <= y.at => y.at - x.at >= cooldownPeriod

\* this step ends a send attempt for the pair `key` that did not throw
Attempted(key) ==
    /\ Len(sends') = Len(sends) + 1
    /\ sends'[Len(sends')].key = key
    /\ ~sends'[Len(sends')].threw

\* C30: the suppression timestamp of a pair is set to the current time by every
\* step that ends a send attempt for it, whether the sender returned true or
\* false, and is changed by no other step; and a pair whose send failed is sent
\* for again only cooldownPeriod or more later.
C30_TimestampAfterEveryAttempt ==
    /\ [][\A key \in AlertKeys :
            IF Attempted(key)
            THEN alertHistory'[key] = now'
            ELSE alertHistory'[key] = alertHistory[key]]_vars
    /\ [](\A a, b \in 1..Len(sends) :
            (a < b /\ sends[a].key = sends[b].key /\ ~sends[a].ok)
                => sends[b].at - sends[a].at >= cooldownPeriod)

\* a send failed, checks in between sent nothing for the pair, and it was sent
\* for again once the cooldown had passed
C30_Witness ==
    \E a, b \in 1..Len(sends) :
        /\ a < b
        /\ sends[a].key = sends[b].key
        /\ ~sends[a].ok
        /\ sends[b].at - sends[a].at >= cooldownPeriod
        /\ alertHistory[sends[a].key] >= sends[b].at

====
